---- MODULE Spec2Model ----
(***************************************************************************)
(* Adaptive-Learning-Assessment: the performance tracker                   *)
(* (src/src/tracker.py), the adaptive engine (src/src/adaptive_engine.py), *)
(* the puzzle generator (src/src/puzzle_generator.py) and the Streamlit    *)
(* session driver (src/demo/streamlit_app.py) as one state machine.        *)
(*                                                                         *)
(* Numbers.  Python computes accuracy, avg_time and the fallback score in  *)
(* floating point.  The model keeps them as exact fractions                *)
(* [num, den] in lowest terms and compares them by cross-multiplication:   *)
(* none of the values the model draws lies within a rounding error of a    *)
(* threshold they are compared with.  The two half-window accuracies of    *)
(* the trend can differ by exactly the threshold 0.2, so the trend is      *)
(* computed on IEEE-754 doubles.  Elapsed times are whole seconds drawn    *)
(* from Times.                                                             *)
(*                                                                         *)
(* Attempt records.  A record keeps the three fields the tracker's         *)
(* statistics read ('correct', 'time', 'difficulty').  The fields          *)
(* 'puzzle', 'user_answer' and 'correct_answer' are stored by the code and *)
(* only ever read back by the summary screen; they are not carried.        *)
(***************************************************************************)
EXTENDS Integers, Sequences, FiniteSets, TLC

VARIABLES
    driver,             \* which program runs: "tracker", "engine", "generator",
                        \* "cli" (src/src/main.py) or "streamlit"
    history,            \* PerformanceTracker.history
    difficulty_changes, \* PerformanceTracker.difficulty_changes
    last_difficulty,    \* PerformanceTracker.last_difficulty
    prediction_count,   \* AdaptiveEngine.prediction_count
    last_confidence,    \* AdaptiveEngine.last_confidence, in percent
    pretrain_model_runs, \* how often AdaptiveEngine._pretrain_model has run
    game_state,         \* st.session_state.game_state
    user_name,          \* st.session_state.user_name
    current_difficulty, \* st.session_state.current_difficulty
    puzzle_count,       \* st.session_state.puzzle_count
    max_puzzles,        \* st.session_state.max_puzzles
    current_puzzle,     \* st.session_state.current_puzzle: <<>> is None
    feedback,           \* st.session_state.feedback: <<>> is None
    show_next_button,   \* st.session_state.show_next_button
    cli,                \* the locals of main() in src/src/main.py
    call                \* the last core operation called: name, argument, result

trackerVars == <<history, difficulty_changes, last_difficulty>>
engineVars  == <<prediction_count, last_confidence, pretrain_model_runs>>
sessionVars == <<game_state, user_name, current_difficulty, puzzle_count,
                 max_puzzles, current_puzzle, feedback, show_next_button>>
vars        == <<driver, history, difficulty_changes, last_difficulty,
                 prediction_count, last_confidence, pretrain_model_runs,
                 game_state, user_name,
                 current_difficulty, puzzle_count, max_puzzles, current_puzzle,
                 feedback, show_next_button, cli, call>>

----------------------------------------------------------------------------
(* Python values *)

None == 0

\* a Python int and a Python str, as the arguments of generate_puzzle;
\* == between an int and a str is False
PyInt(i) == [type |-> "int", value |-> i]
PyStr(t) == [type |-> "str", value |-> t]
PyEq(x, y) == x.type = y.type /\ x.value = y.value

\* a completed call and a call that raised
Returned(op, arg, result) ==
    [op |-> op, arg |-> arg, result |-> result, raised |-> "none"]
Raised(op, arg, exception) ==
    [op |-> op, arg |-> arg, result |-> None, raised |-> exception]

\* no call made yet, or the caller is done with the last result
NoCall == Returned("none", None, None)

Difficulties == {1, 2, 3}

Max(a, b) == IF a >= b THEN a ELSE b
Min(a, b) == IF a <= b THEN a ELSE b

RECURSIVE Gcd(_, _)
Gcd(a, b) == IF b = 0 THEN a ELSE Gcd(b, a % b)

\* the exact value n/d of a Python float division, in lowest terms
Frac(n, d) ==
    LET g == Gcd(n, d)
    IN  [num |-> n \div g, den |-> d \div g]

Zero == [num |-> 0, den |-> 1]

\* sum(1 for r in s if r['correct'])
RECURSIVE CorrectCount(_)
CorrectCount(s) ==
    IF s = <<>> THEN 0
    ELSE (IF Head(s).correct THEN 1 ELSE 0) + CorrectCount(Tail(s))

\* sum(r['time'] for r in s)
RECURSIVE TimeSum(_)
TimeSum(s) ==
    IF s = <<>> THEN 0 ELSE Head(s).time + TimeSum(Tail(s))

\* the Python slice s[start:] for any integer start
SliceFrom(s, start) ==
    LET k == IF start < 0 THEN Max(Len(s) + start, 0) ELSE Min(start, Len(s))
    IN  SubSeq(s, k + 1, Len(s))

\* the Python slice s[:stop] for 0 <= stop <= len(s)
SliceTo(s, stop) == SubSeq(s, 1, stop)

----------------------------------------------------------------------------
(* Python floats where rounding decides a result.  The trend compares      *)
(* second_half_acc with first_half_acc + 0.2 and first_half_acc - 0.2; at  *)
(* a difference of exactly 0.2 the rounding of the sum decides the         *)
(* comparison, so these values are IEEE-754 doubles, computed bit by bit.  *)
(* A double in [0, 4) is held as 66 bits, bit i of weight 2^(2 - i),       *)
(* packed 11 to a digit into a sequence of 6 digits of base 2048; the bits *)
(* of a double that are set lie within 53 positions from its first 1.      *)

\* the digits digit[1], ..., digit[6] as one sequence
DigitsOf(digit) == SubSeq(digit, 1, 6)

\* bit i of x; digit j holds the bits 11 * (j - 1) + 1 .. 11 * j
Bit(x, i) ==
    IF i <= 66
    THEN (x[(i - 1) \div 11 + 1] \div 2^(10 - ((i - 1) % 11))) % 2
    ELSE 0

\* position of the first 1 of x, 67 if there is none
FirstOne(x) ==
    IF \A j \in 1 .. 6 : x[j] = 0 THEN 67
    ELSE LET p == CHOOSE j \in 1 .. 6 :
                      x[j] # 0 /\ \A k \in 1 .. (j - 1) : x[k] = 0
             t == CHOOSE b \in 0 .. 10 : 2^b <= x[p] /\ x[p] < 2^(b + 1)
         IN  11 * p - t

\* x with the bits after position last cleared
Keep(x, last) ==
    DigitsOf([j \in 1 .. 6 |->
                 IF 11 * j <= last THEN x[j]
                 ELSE IF 11 * (j - 1) >= last THEN 0
                 ELSE x[j] - (x[j] % 2^(11 * j - last))])

\* one unit in position last, last <= 66
Ulp(last) ==
    DigitsOf([j \in 1 .. 6 |->
                 IF 11 * (j - 1) < last /\ last <= 11 * j
                 THEN 2^(11 * j - last) ELSE 0])

\* the carry out of digit j of x + y
RECURSIVE CarryOut(_, _, _)
CarryOut(x, y, j) ==
    IF j > 6 THEN 0 ELSE (x[j] + y[j] + CarryOut(x, y, j + 1)) \div 2048

\* x + y, below 4
AddDigits(x, y) ==
    DigitsOf([j \in 1 .. 6 |-> (x[j] + y[j] + CarryOut(x, y, j + 1)) % 2048])

\* the borrow out of digit j of x - y
RECURSIVE BorrowOut(_, _, _)
BorrowOut(x, y, j) ==
    IF j > 6 THEN 0
    ELSE IF x[j] - y[j] - BorrowOut(x, y, j + 1) < 0 THEN 1 ELSE 0

\* x - y, for x >= y
SubDigits(x, y) ==
    DigitsOf([j \in 1 .. 6 |->
                 (x[j] - y[j] - BorrowOut(x, y, j + 1) + 2048) % 2048])

\* x < y
DoubleLess(x, y) ==
    \E j \in 1 .. 6 : x[j] < y[j] /\ \A k \in 1 .. (j - 1) : x[k] = y[k]

\* round to nearest, ties to even, at 53 significant bits; sticky says that
\* the exact value has more below the last bit of x
RoundToDouble(x, sticky) ==
    LET last  == FirstOne(x) + 52
        guard == Bit(x, last + 1)
        rest  == sticky \/ x # Keep(x, last + 1)
    IN  IF guard = 1 /\ (rest \/ Bit(x, last) = 1)
        THEN AddDigits(Keep(x, last), Ulp(last))
        ELSE Keep(x, last)

\* what is left of r / m, for 0 <= r < m, below digit j: digit 1 holds the
\* first 9 bits after the binary point, every later digit 11 more
RECURSIVE FractionRest(_, _, _)
FractionRest(r, m, j) ==
    IF j = 0 THEN r
    ELSE IF j = 1 THEN (r * 512) % m
    ELSE (FractionRest(r, m, j - 1) * 2048) % m

\* the float a / m of two ints, 0 <= a <= m
DoubleDiv(a, m) ==
    RoundToDouble(
        DigitsOf([j \in 1 .. 6 |->
                     IF j = 1 THEN (a \div m) * 512 + ((a % m) * 512) \div m
                     ELSE (FractionRest(a % m, m, j - 1) * 2048) \div m]),
        FractionRest(a % m, m, 6) # 0)

\* the literal 0.2
Point2 == DoubleDiv(1, 5)

\* x + y of two doubles
DoubleAdd(x, y) == RoundToDouble(AddDigits(x, y), FALSE)

\* x - y of two doubles, x >= y
DoubleSub(x, y) == RoundToDouble(SubDigits(x, y), FALSE)

----------------------------------------------------------------------------
(* Bounds of the model *)

\* longest attempt log a direct caller of the tracker builds
MaxHistory == 4

\* most classifier decisions a direct caller of the engine asks for
MaxPredictions == 2

\* longest attempt log whose trend a direct caller of the tracker asks for
MaxTrendWindow == 10

\* elapsed times (seconds) a learner can take: one fast, one slow
Times == {3, 20}

\* the attempts a direct caller of the tracker records: every outcome with
\* every difficulty, and every outcome with both times
Attempts ==
    {<<TRUE, 3, 1>>, <<FALSE, 20, 1>>, <<TRUE, 20, 2>>,
     <<FALSE, 3, 2>>, <<TRUE, 3, 3>>, <<FALSE, 20, 3>>}

\* the probability (percent) the classifier gives its winning class
Confidences == {40, 90}

\* performance_metrics a direct caller of the engine passes
MetricsInputs ==
    [accuracy         : {[num |-> a, den |-> 1] : a \in {0, 50, 100}},
     avg_time         : {[num |-> t, den |-> 1] : t \in Times},
     correct_streak   : {0, 2},
     incorrect_streak : {0, 1},
     recent_problems  : 0 .. 3,
     trend            : {-1, 0, 1}]

\* the window statistics a direct caller hands to the rule-based policy:
\* accuracies (percent) and times (ms) on both sides of every threshold
RuleStatsInputs ==
    [accuracy        : {0, 20, 33, 34, 50, 66, 67, 75, 90, 100},
     avg_time_ms     : {0, 3000, 7500, 12000, 15000, 20000},
     recent_problems : 0 .. 3]

\* problems per Streamlit session.  streamlit_app.py line 82 sets
\* max_puzzles = 10; the model runs shorter sessions so that every attempt
\* log of a session can be enumerated.
MaxPuzzles == 3

\* engines constructed in one Streamlit process: the one of
\* init_session_state and one per session started
MaxEngines == 3

\* what a learner types as the name: nothing, a blank, a name
Names == {<<>>, <<" ">>, <<"A">>}

\* arguments a direct caller passes to generate_puzzle
DifficultyArgs ==
    {PyInt(i) : i \in 0 .. 4} \cup {PyStr(t) : t \in {"easy", "medium", "hard"}}

\* what the learner types at the CLI's "Enter choice (1-3)" prompt
Choices == {"1", "2", "3", "9"}

----------------------------------------------------------------------------
(* PerformanceTracker *)

Record(is_correct, time_taken, difficulty) ==
    [correct |-> is_correct, time |-> time_taken, difficulty |-> difficulty]

\* (mutant) the window is the whole history, whatever n
RecentIgnoringN(h, n) == h

\* recent = self.history[-n:] if len(self.history) >= n else self.history
Recent(h, n) == IF Len(h) >= n THEN SliceFrom(h, 0 - n) ELSE h

\* (mutant) the streak loop leaving at the first record of the other
\* outcome before it counts it
RECURSIVE StreakScanLeavingUncounted(_, _, _, _)
StreakScanLeavingUncounted(recent, i, correct_streak, incorrect_streak) ==
    IF i = 0 THEN <<correct_streak, incorrect_streak>>
    ELSE IF recent[i].correct
         THEN IF incorrect_streak > 0
              THEN <<correct_streak, incorrect_streak>>
              ELSE StreakScanLeavingUncounted(recent, i - 1, correct_streak + 1,
                                              incorrect_streak)
         ELSE IF correct_streak > 0
              THEN <<correct_streak, incorrect_streak>>
              ELSE StreakScanLeavingUncounted(recent, i - 1, correct_streak,
                                              incorrect_streak + 1)

\* the streak loop over reversed(recent); i is the position being visited
RECURSIVE StreakScan(_, _, _, _)
StreakScan(recent, i, correct_streak, incorrect_streak) ==
    IF i = 0 THEN <<correct_streak, incorrect_streak>>
    ELSE IF recent[i].correct
         THEN IF incorrect_streak > 0
              THEN <<correct_streak + 1, incorrect_streak>>
              ELSE StreakScan(recent, i - 1, correct_streak + 1, incorrect_streak)
         ELSE IF correct_streak > 0
              THEN <<correct_streak, incorrect_streak + 1>>
              ELSE StreakScan(recent, i - 1, correct_streak, incorrect_streak + 1)

\* second_half_acc > first_half_acc + 0.2
Improving(first_half_acc, second_half_acc) ==
    DoubleLess(DoubleAdd(first_half_acc, Point2), second_half_acc)

\* second_half_acc < first_half_acc - 0.2; below 0.2 the difference is
\* negative and no accuracy is less
Declining(first_half_acc, second_half_acc) ==
    /\ ~DoubleLess(first_half_acc, Point2)
    /\ DoubleLess(second_half_acc, DoubleSub(first_half_acc, Point2))

\* (mutant) the trend taken from windows of 3 records on
TrendFromThreeRecords(recent) ==
    IF Len(recent) >= 3
    THEN LET mid == Len(recent) \div 2
             first_half_acc  ==
                 DoubleDiv(CorrectCount(SliceTo(recent, mid)), mid)
             second_half_acc ==
                 DoubleDiv(CorrectCount(SliceFrom(recent, mid)),
                           Len(recent) - mid)
         IN  IF Improving(first_half_acc, second_half_acc) THEN 1
             ELSE IF Declining(first_half_acc, second_half_acc) THEN -1
             ELSE 0
    ELSE 0

\* trend of the window: first half against second half
Trend(recent) ==
    IF Len(recent) >= 4
    THEN LET mid == Len(recent) \div 2
             first_half_acc  ==
                 DoubleDiv(CorrectCount(SliceTo(recent, mid)), mid)
             second_half_acc ==
                 DoubleDiv(CorrectCount(SliceFrom(recent, mid)),
                           Len(recent) - mid)
         IN  IF Improving(first_half_acc, second_half_acc) THEN 1
             ELSE IF Declining(first_half_acc, second_half_acc) THEN -1
             ELSE 0
    ELSE 0

\* (mutant) get_recent_performance without the test for an empty history
\* and without the tests of total_count: the divisions fail on no records
get_recent_performance_dividing_unguarded(h, n) ==
    LET recent        == Recent(h, n)
        correct_count == CorrectCount(recent)
        total_count   == Len(recent)
        streaks       == StreakScan(recent, Len(recent), 0, 0)
    IN  IF total_count = 0
        THEN [raised |-> "ZeroDivisionError"]
        ELSE [accuracy |-> Frac(100 * correct_count, total_count),
              avg_time |-> Frac(TimeSum(recent), total_count),
              correct_streak   |-> streaks[1],
              incorrect_streak |-> streaks[2],
              recent_problems  |-> total_count,
              trend            |-> Trend(recent)]

get_recent_performance(h, n) ==
    IF h = <<>>
    THEN [accuracy |-> Zero, avg_time |-> Zero, correct_streak |-> 0,
          incorrect_streak |-> 0, recent_problems |-> 0, trend |-> 0]
    ELSE LET recent        == Recent(h, n)
             correct_count == CorrectCount(recent)
             total_count   == Len(recent)
             streaks       == StreakScan(recent, Len(recent), 0, 0)
         IN  [accuracy |-> IF total_count > 0
                           THEN Frac(100 * correct_count, total_count)
                           ELSE Zero,
              avg_time |-> IF total_count > 0
                           THEN Frac(TimeSum(recent), total_count)
                           ELSE Zero,
              correct_streak   |-> streaks[1],
              incorrect_streak |-> streaks[2],
              recent_problems  |-> total_count,
              trend            |-> Trend(recent)]

\* get_difficulty_distribution: records per difficulty level
get_difficulty_distribution(h) ==
    [d \in Difficulties |->
        Cardinality({i \in 1..Len(h) : h[i].difficulty = d})]

\* get_performance_by_difficulty: correct and total per difficulty level
get_performance_by_difficulty(h) ==
    [d \in Difficulties |->
        [correct |-> Cardinality({i \in 1..Len(h) :
                                    h[i].difficulty = d /\ h[i].correct}),
         total   |-> Cardinality({i \in 1..Len(h) : h[i].difficulty = d})]]

\* (mutant) the recommendation without the floor at the lowest level
RecommendedWithoutFloor(accuracy, final_difficulty) ==
    IF accuracy.num >= 80 * accuracy.den /\ final_difficulty < 3
    THEN final_difficulty + 1
    ELSE IF accuracy.num < 50 * accuracy.den
         THEN final_difficulty - 1
         ELSE final_difficulty

\* the recommendation of get_summary from the last-3 accuracy
Recommended(accuracy, final_difficulty) ==
    IF accuracy.num >= 80 * accuracy.den /\ final_difficulty < 3
    THEN final_difficulty + 1
    ELSE IF accuracy.num < 50 * accuracy.den /\ final_difficulty > 1
         THEN final_difficulty - 1
         ELSE final_difficulty

get_summary(h, changes) ==
    IF h = <<>>
    THEN [total_problems |-> 0, correct |-> 0, incorrect |-> 0,
          accuracy |-> Zero, avg_time |-> Zero,
          difficulty_distribution |-> [d \in Difficulties |-> 0],
          difficulty_changes |-> 0,
          final_difficulty |-> 1,
          recommended_difficulty |-> 1,
          performance_by_difficulty |->
              [d \in Difficulties |-> [correct |-> 0, total |-> 0]],
          model_info |-> [type |-> "Logistic Regression",
                          predictions_made |-> 0, last_confidence |-> Zero]]
    ELSE LET total_problems   == Len(h)
             correct          == CorrectCount(h)
             final_difficulty == h[Len(h)].difficulty
             recent_perf      == get_recent_performance(h, 3)
         IN  [total_problems |-> total_problems,
              correct        |-> correct,
              incorrect      |-> total_problems - correct,
              accuracy       |-> Frac(100 * correct, total_problems),
              avg_time       |-> Frac(TimeSum(h), total_problems),
              difficulty_distribution |-> get_difficulty_distribution(h),
              difficulty_changes |-> changes,
              final_difficulty   |-> final_difficulty,
              recommended_difficulty |->
                  Recommended(recent_perf.accuracy, final_difficulty),
              performance_by_difficulty |-> get_performance_by_difficulty(h),
              model_info |->
                  [type |-> "Logistic Regression",
                   predictions_made |-> total_problems - 1,
                   last_confidence  |->
                       Frac(recent_perf.accuracy.num,
                            100 * recent_perf.accuracy.den)]]

\* (mutant) the counter update without the test for a first record
CountChangeOnFirstRecord(last, difficulty, changes) ==
    IF last # difficulty THEN changes + 1 ELSE changes

\* the counter update of record_performance
CountChange(last, difficulty, changes) ==
    IF last # None /\ last # difficulty THEN changes + 1 ELSE changes

\* (mutant) record_performance putting the new record first
record_performance_prepending(is_correct, time_taken, difficulty) ==
    /\ history' = <<Record(is_correct, time_taken, difficulty)>> \o history
    /\ difficulty_changes' =
           IF last_difficulty # None /\ last_difficulty # difficulty
           THEN difficulty_changes + 1 ELSE difficulty_changes
    /\ last_difficulty' = difficulty

\* record_performance: append the record, count a change of difficulty
record_performance(is_correct, time_taken, difficulty) ==
    /\ history' = Append(history, Record(is_correct, time_taken, difficulty))
    /\ difficulty_changes' =
           CountChange(last_difficulty, difficulty, difficulty_changes)
    /\ last_difficulty' = difficulty

\* record_attempt: calls record_performance with the same arguments
record_attempt(is_correct, time_taken, difficulty) ==
    record_performance(is_correct, time_taken, difficulty)

----------------------------------------------------------------------------
(* AdaptiveEngine *)

\* the labels the fitted classifier can return: decrease, stay, increase
Classes == {0, 1, 2}

\* performance_score = accuracy * 0.7 + max(0, 30 - avg_time) * 0.3, as the
\* fraction ScoreNum / ScoreDen
ScoreNum(pm) ==
    7 * pm.accuracy.num * pm.avg_time.den
    + 3 * Max(0, 30 * pm.avg_time.den - pm.avg_time.num) * pm.accuracy.den

ScoreDen(pm) == 10 * pm.accuracy.den * pm.avg_time.den

\* (mutant) the fallback scoring accuracy alone
rule_based_fallback_without_speed(pm, current) ==
    IF 7 * pm.accuracy.num > 750 * pm.accuracy.den /\ current < 3
    THEN current + 1
    ELSE IF 7 * pm.accuracy.num < 400 * pm.accuracy.den /\ current > 1
         THEN current - 1
         ELSE current

\* (mutant) the fallback with the demotion test turned around
rule_based_fallback_demoting_above_40(pm, current) ==
    IF ScoreNum(pm) > 75 * ScoreDen(pm) /\ current < 3
    THEN current + 1
    ELSE IF ScoreNum(pm) > 40 * ScoreDen(pm) /\ current > 1
         THEN current - 1
         ELSE current

\* (mutant) the fallback with its thresholds written as fractions, 0.75 and
\* 0.40, against a score on the scale 0..100
rule_based_fallback_fraction_thresholds(pm, current) ==
    IF 100 * ScoreNum(pm) > 75 * ScoreDen(pm) /\ current < 3
    THEN current + 1
    ELSE IF 100 * ScoreNum(pm) < 40 * ScoreDen(pm) /\ current > 1
         THEN current - 1
         ELSE current

rule_based_fallback(pm, current) ==
    IF ScoreNum(pm) > 75 * ScoreDen(pm) /\ current < 3
    THEN current + 1
    ELSE IF ScoreNum(pm) < 40 * ScoreDen(pm) /\ current > 1
         THEN current - 1
         ELSE current

\* (mutant) the mapping without the clamp to 1..3
MapPredictionUnclamped(prediction, current) ==
    IF prediction = 2 THEN current + 1
    ELSE IF prediction = 0 THEN current - 1
    ELSE current

\* the mapping of the predicted class to the next difficulty
MapPrediction(prediction, current) ==
    IF prediction = 2 THEN Min(current + 1, 3)
    ELSE IF prediction = 0 THEN Max(current - 1, 1)
    ELSE current

\* (mutant) predict_next_difficulty counting the fallback's decisions too
predict_next_difficulty_counting_fallback(pm, current, count, conf, prediction, confidence) ==
    IF pm.recent_problems < 2
    THEN [next_difficulty  |-> IF ScoreNum(pm) > 75 * ScoreDen(pm) /\ current < 3
                               THEN current + 1
                               ELSE IF ScoreNum(pm) < 40 * ScoreDen(pm)
                                       /\ current > 1
                                    THEN current - 1
                                    ELSE current,
          prediction_count |-> count + 1,
          last_confidence  |-> conf]
    ELSE [next_difficulty  |-> IF prediction = 2 THEN Min(current + 1, 3)
                               ELSE IF prediction = 0 THEN Max(current - 1, 1)
                               ELSE current,
          prediction_count |-> count + 1,
          last_confidence  |-> confidence]

\* predict_next_difficulty on an engine in state (count, conf): the value
\* returned and the engine's fields afterwards.  prediction and confidence
\* are what the fitted classifier answers for the scaled features.
predict_next_difficulty(pm, current, count, conf, prediction, confidence) ==
    IF pm.recent_problems < 2
    THEN [next_difficulty  |-> rule_based_fallback(pm, current),
          prediction_count |-> count,
          last_confidence  |-> conf]
    ELSE [next_difficulty  |-> MapPrediction(prediction, current),
          prediction_count |-> count + 1,
          last_confidence  |-> confidence]

\* update_difficulty: an alias of predict_next_difficulty
update_difficulty(pm, current, count, conf, prediction, confidence) ==
    predict_next_difficulty(pm, current, count, conf, prediction, confidence)

\* The rule-based policy that main() calls as engine.adapt_difficulty.  The
\* engine defines no such method; it is taken from the specification, 4.3.
\* stats.accuracy is in percent, stats.avg_time_ms in milliseconds.

\* speed_score = clamp(1 - avg_time_ms/15000, 0, 1), in 1/15000
SpeedScore(stats) == Min(Max(15000 - stats.avg_time_ms, 0), 15000)

\* 0.7 * accuracy_fraction + 0.3 * speed_score, in 1/150000
PerformanceScore(stats) == 1050 * stats.accuracy + 3 * SpeedScore(stats)

\* perf > p/q and perf < p/q
PerformanceAbove(stats, p, q) == PerformanceScore(stats) * q > 150000 * p
PerformanceBelow(stats, p, q) == PerformanceScore(stats) * q < 150000 * p

\* the transition table, conditions taken in promote-then-demote order
Transition(stats, current) ==
    LET promote ==
            \/ current = 1 /\ PerformanceAbove(stats, 3, 4) /\ stats.accuracy >= 67
            \/ current = 2 /\ PerformanceAbove(stats, 4, 5) /\ stats.accuracy >= 67
        demote ==
            \/ current = 2 /\ (PerformanceBelow(stats, 2, 5) \/ stats.accuracy < 34)
            \/ current = 3 /\ (PerformanceBelow(stats, 1, 2) \/ stats.accuracy < 34)
    IN  IF promote THEN current + 1
        ELSE IF demote THEN current - 1
        ELSE current

\* (mutant) the policy deciding on a window of any size
adapt_difficulty_on_any_window(stats, current) == Transition(stats, current)

\* next_difficulty(window_stats, current)
adapt_difficulty(stats, current) ==
    IF stats.recent_problems < 2 THEN current ELSE Transition(stats, current)

\* AdaptiveEngine(): __init__ runs _pretrain_model, which fits the scaler and
\* the classifier; no prediction made yet
NewEngine ==
    /\ pretrain_model_runs' = pretrain_model_runs + 1
    /\ prediction_count' = 0
    /\ last_confidence' = 0

\* PerformanceTracker(): an empty log
NewTracker ==
    /\ history' = <<>>
    /\ difficulty_changes' = 0
    /\ last_difficulty' = None

----------------------------------------------------------------------------
(* PuzzleGenerator *)

\* what random.randint(a, b) can deliver: any value of a..b, or, where a
\* driver's puzzles are sampled, the low end only
randint(a, b, rng) == IF rng = "any" THEN a .. b ELSE {a}

\* _calculate; the generators call it with the four operations only
calculate(num1, num2, operation) ==
    IF operation = "+" THEN Frac(num1 + num2, 1)
    ELSE IF operation = "-" THEN Frac(num1 - num2, 1)
    ELSE IF operation = "*" THEN Frac(num1 * num2, 1)
    ELSE Frac(num1, num2)

\* (mutant) operands kept in the order drawn
SwapForSubtractionNever(operation, num1, num2) == <<num1, num2>>

\* if operation == '-' and num2 > num1: num1, num2 = num2, num1
SwapForSubtraction(operation, num1, num2) ==
    IF operation = "-" /\ num2 > num1 THEN <<num2, num1>> ELSE <<num1, num2>>

\* the dict a generator returns
Puzzle(operands, operation, difficulty) ==
    [num1 |-> operands[1], num2 |-> operands[2], operation |-> operation,
     answer |-> calculate(operands[1], operands[2], operation),
     difficulty |-> difficulty]

generate_easy(rng) ==
    {Puzzle(SwapForSubtraction(operation, num1, num2), operation, 1) :
        operation \in {"+", "-"},
        num1 \in randint(1, 10, rng), num2 \in randint(1, 10, rng)}

generate_medium(rng) ==
    {Puzzle(<<num1, num2>>, "*", 2) :
        num1 \in randint(2, 12, rng), num2 \in randint(2, 12, rng)}
    \cup
    {Puzzle(SwapForSubtraction(operation, num1, num2), operation, 2) :
        operation \in {"+", "-"},
        num1 \in randint(10, 20, rng), num2 \in randint(1, 10, rng)}

\* (mutant) _generate_hard dividing the quotient drawn, not a multiple of
\* the divisor
generate_hard_dividing_the_draw(rng) ==
    {Puzzle(<<num1, num2>>, "*", 3) :
        num1 \in randint(5, 15, rng), num2 \in randint(5, 15, rng)}
    \cup
    {Puzzle(<<quotient, num2>>, "/", 3) :
        num2 \in randint(2, 12, rng), quotient \in randint(5, 15, rng)}
    \cup
    {Puzzle(SwapForSubtraction("-", num1, num2), "-", 3) :
        num1 \in randint(20, 50, rng), num2 \in randint(5, 20, rng)}
    \cup
    {Puzzle(<<num1, num2>>, "+", 3) :
        num1 \in randint(20, 50, rng), num2 \in randint(10, 30, rng)}

generate_hard(rng) ==
    {Puzzle(<<num1, num2>>, "*", 3) :
        num1 \in randint(5, 15, rng), num2 \in randint(5, 15, rng)}
    \cup
    {Puzzle(<<num2 * quotient, num2>>, "/", 3) :
        num2 \in randint(2, 12, rng), quotient \in randint(5, 15, rng)}
    \cup
    {Puzzle(SwapForSubtraction("-", num1, num2), "-", 3) :
        num1 \in randint(20, 50, rng), num2 \in randint(5, 20, rng)}
    \cup
    {Puzzle(<<num1, num2>>, "+", 3) :
        num1 \in randint(20, 50, rng), num2 \in randint(10, 30, rng)}

\* generate_puzzle: the puzzles it can return for the argument difficulty
generate_puzzle(difficulty, rng) ==
    IF PyEq(difficulty, PyInt(1)) THEN generate_easy(rng)
    ELSE IF PyEq(difficulty, PyInt(2)) THEN generate_medium(rng)
    ELSE generate_hard(rng)

----------------------------------------------------------------------------
(* The state every program starts in: fresh objects, and the session state *)
(* init_session_state builds on the first run of the Streamlit script      *)

Start(program) ==
    /\ driver = program
    /\ history = <<>>
    /\ difficulty_changes = 0
    /\ last_difficulty = None
    /\ prediction_count = 0
    /\ last_confidence = 0
    /\ pretrain_model_runs = 1
    /\ game_state = "welcome"
    /\ user_name = <<>>
    /\ current_difficulty = 1
    /\ puzzle_count = 0
    /\ max_puzzles = MaxPuzzles
    /\ current_puzzle = <<>>
    /\ feedback = <<>>
    /\ show_next_button = FALSE
    /\ cli = [pc |-> "start", current_difficulty |-> "", puzzle |-> <<>>]
    /\ call = NoCall

\* the attempt logs of a tracker that recorded up to MaxTrendWindow fast
\* attempts at level 1, of any outcomes
TrendLogs ==
    UNION {[1 .. k -> {Record(TRUE, 3, 1), Record(FALSE, 3, 1)}] :
              k \in 0 .. MaxTrendWindow}

\* a tracker after record_performance(o, 3, 1) for each outcome o of a log
StartRecorded ==
    /\ driver = "tracker"
    /\ history \in TrendLogs
    /\ difficulty_changes = 0
    /\ last_difficulty = (IF history = <<>> THEN None ELSE 1)
    /\ prediction_count = 0
    /\ last_confidence = 0
    /\ pretrain_model_runs = 1
    /\ game_state = "welcome"
    /\ user_name = <<>>
    /\ current_difficulty = 1
    /\ puzzle_count = 0
    /\ max_puzzles = MaxPuzzles
    /\ current_puzzle = <<>>
    /\ feedback = <<>>
    /\ show_next_button = FALSE
    /\ cli = [pc |-> "start", current_difficulty |-> "", puzzle |-> <<>>]
    /\ call = NoCall

----------------------------------------------------------------------------
(* A direct caller of the tracker: any sequence of records and queries. *)
(* A direct caller makes a call, holds its result in call, and goes on.  *)

\* the caller is done with the result of its last call
CallerContinues ==
    /\ driver \in {"tracker", "engine", "generator"}
    /\ call # NoCall
    /\ call' = NoCall
    /\ UNCHANGED <<driver, trackerVars, engineVars, sessionVars, cli>>

\* window sizes a caller asks for: none, shorter than the log, longer, and
\* up to the default 3 on a short log
WindowSizes(h) == 0 .. Max(Len(h) + 1, 3)

CallRecordPerformance ==
    /\ driver = "tracker"
    /\ call = NoCall
    /\ Len(history) < MaxHistory
    /\ \E a \in Attempts :
            /\ record_performance(a[1], a[2], a[3])
            /\ call' = Returned("record_performance", a, None)
    /\ UNCHANGED <<driver, engineVars, sessionVars, cli>>

CallRecordAttempt ==
    /\ driver = "tracker"
    /\ call = NoCall
    /\ Len(history) < MaxHistory
    /\ \E a \in Attempts :
            /\ record_attempt(a[1], a[2], a[3])
            /\ call' = Returned("record_attempt", a, None)
    /\ UNCHANGED <<driver, engineVars, sessionVars, cli>>

\* (mutant) get_recent_performance keeping only the window in the log
CallGetRecentPerformanceTruncating ==
    /\ driver = "tracker"
    /\ call = NoCall
    /\ \E n \in WindowSizes(history) :
          /\ call' = Returned("get_recent_performance", n,
                              get_recent_performance(history, n))
          /\ history' = Recent(history, n)
    /\ UNCHANGED <<driver, difficulty_changes, last_difficulty, engineVars,
                   sessionVars, cli>>

CallGetRecentPerformance ==
    /\ driver = "tracker"
    /\ call = NoCall
    /\ \E n \in WindowSizes(history) :
          call' = Returned("get_recent_performance", n,
                           get_recent_performance(history, n))
    /\ UNCHANGED <<driver, trackerVars, engineVars, sessionVars, cli>>

CallGetSummary ==
    /\ driver = "tracker"
    /\ call = NoCall
    /\ call' = Returned("get_summary", None,
                        get_summary(history, difficulty_changes))
    /\ UNCHANGED <<driver, trackerVars, engineVars, sessionVars, cli>>

----------------------------------------------------------------------------
(* A direct caller of the engine *)

\* the statistics handed to the engine: the tracker's, where the caller
\* holds a tracker, and any of MetricsInputs otherwise
MetricsOf(program) ==
    IF program = "tracker" THEN {get_recent_performance(history, 3)}
    ELSE MetricsInputs

CallPredictNextDifficulty ==
    /\ driver \in {"tracker", "engine"}
    /\ call = NoCall
    /\ \E pm \in MetricsOf(driver), current \in Difficulties,
          prediction \in Classes, confidence \in Confidences :
          LET out == predict_next_difficulty(pm, current, prediction_count,
                         last_confidence, prediction, confidence)
          IN  /\ out.prediction_count <= MaxPredictions
              /\ prediction_count' = out.prediction_count
              /\ last_confidence' = out.last_confidence
              /\ UNCHANGED pretrain_model_runs
              /\ call' = Returned("predict_next_difficulty",
                             [performance_metrics |-> pm,
                              current_difficulty |-> current],
                             out.next_difficulty)
    /\ UNCHANGED <<driver, trackerVars, sessionVars, cli>>

CallUpdateDifficulty ==
    /\ driver = "engine"
    /\ call = NoCall
    /\ \E pm \in MetricsOf(driver), current \in Difficulties,
          prediction \in Classes, confidence \in Confidences :
          LET out == update_difficulty(pm, current, prediction_count,
                         last_confidence, prediction, confidence)
          IN  /\ out.prediction_count <= MaxPredictions
              /\ prediction_count' = out.prediction_count
              /\ last_confidence' = out.last_confidence
              /\ UNCHANGED pretrain_model_runs
              /\ call' = Returned("update_difficulty",
                             [performance_metrics |-> pm,
                              current_difficulty |-> current],
                             out.next_difficulty)
    /\ UNCHANGED <<driver, trackerVars, sessionVars, cli>>

\* get_model_info: reads the two counters
CallGetModelInfo ==
    /\ driver = "engine"
    /\ call = NoCall
    /\ call' = Returned("get_model_info", None,
                        [predictions_made |-> prediction_count,
                         last_confidence  |-> last_confidence])
    /\ UNCHANGED <<driver, trackerVars, engineVars, sessionVars, cli>>

\* engine.adapt_difficulty(stats, current_difficulty)
CallAdaptDifficulty ==
    /\ driver = "engine"
    /\ call = NoCall
    /\ \E stats \in RuleStatsInputs, current \in Difficulties :
          call' = Returned("adapt_difficulty",
                           [stats |-> stats, current_difficulty |-> current],
                           adapt_difficulty(stats, current))
    /\ UNCHANGED <<driver, trackerVars, engineVars, sessionVars, cli>>

----------------------------------------------------------------------------
(* A direct caller of the generator, and the CLI driver main() *)

CallGeneratePuzzle ==
    /\ driver = "generator"
    /\ call = NoCall
    /\ \E difficulty \in DifficultyArgs :
          \E puzzle \in generate_puzzle(difficulty, "any") :
              call' = Returned("generate_puzzle", difficulty, puzzle)
    /\ UNCHANGED <<driver, trackerVars, engineVars, sessionVars, cli>>

\* difficulty_map.get(choice, 'medium')
difficulty_map_get(choice) ==
    IF choice = "1" THEN "easy"
    ELSE IF choice = "2" THEN "medium"
    ELSE IF choice = "3" THEN "hard"
    ELSE "medium"

\* main(), lines 26-28: the starting difficulty is a tag
MainChoose ==
    /\ driver = "cli"
    /\ cli.pc = "start"
    /\ \E choice \in Choices :
          cli' = [cli EXCEPT !.pc = "generate",
                             !.current_difficulty = difficulty_map_get(choice)]
    /\ UNCHANGED <<driver, trackerVars, engineVars, sessionVars, call>>

\* main(), line 40: the tag is passed to generate_puzzle
MainGenerate ==
    /\ driver = "cli"
    /\ cli.pc = "generate"
    /\ \E puzzle \in generate_puzzle(PyStr(cli.current_difficulty), "any") :
          /\ cli' = [cli EXCEPT !.pc = "answer", !.puzzle = <<puzzle>>]
          /\ call' = Returned("generate_puzzle",
                              PyStr(cli.current_difficulty), puzzle)
    /\ UNCHANGED <<driver, trackerVars, engineVars, sessionVars>>

\* main(), lines 44-67: the answer is read and record_attempt is called with
\* the keywords correct= and time_ms=, which it does not take: TypeError,
\* uncaught, ends the program
MainRecord ==
    /\ driver = "cli"
    /\ cli.pc = "answer"
    /\ cli' = [cli EXCEPT !.pc = "crashed"]
    /\ call' = Raised("record_attempt", cli.current_difficulty, "TypeError")
    /\ UNCHANGED <<driver, trackerVars, engineVars, sessionVars>>

----------------------------------------------------------------------------
(* The Streamlit session driver: one action per button, and the render of  *)
(* the summary screen.  Elapsed time is the learner's input time_taken;    *)
(* start_time is not kept.                                                 *)

\* name.strip()
RECURSIVE LStrip(_)
LStrip(name) ==
    IF name # <<>> /\ Head(name) = " " THEN LStrip(Tail(name)) ELSE name

RECURSIVE RStrip(_)
RStrip(name) ==
    IF name # <<>> /\ name[Len(name)] = " "
    THEN RStrip(SubSeq(name, 1, Len(name) - 1))
    ELSE name

Strip(name) == RStrip(LStrip(name))

\* what the learner submits for a puzzle: its answer, or its answer plus one
AnswersTo(puzzle) ==
    {puzzle.answer,
     [num |-> puzzle.answer.num + puzzle.answer.den, den |-> puzzle.answer.den]}

\* abs(float(answer) - correct_answer) < 0.01
IsCorrect(answer, correct_answer) ==
    LET diff == answer.num * correct_answer.den - correct_answer.num * answer.den
        abs  == IF diff < 0 THEN 0 - diff ELSE diff
    IN  100 * abs < answer.den * correct_answer.den

\* generate_new_puzzle, for the value current_difficulty has when it runs
generate_new_puzzle(difficulty) ==
    /\ \E puzzle \in generate_puzzle(PyInt(difficulty), "low") :
          /\ current_puzzle' = <<puzzle>>
          /\ call' = Returned("generate_puzzle", PyInt(difficulty), puzzle)
    /\ feedback' = <<>>
    /\ show_next_button' = FALSE

\* (mutant) start_game going on with the tracker of the session before
start_game_keeping_tracker(name, difficulty) ==
    /\ user_name' = name
    /\ current_difficulty' = difficulty
    /\ game_state' = "playing"
    /\ puzzle_count' = 0
    /\ UNCHANGED trackerVars
    /\ NewEngine
    /\ generate_new_puzzle(difficulty)
    /\ UNCHANGED max_puzzles

start_game(name, difficulty) ==
    /\ user_name' = name
    /\ current_difficulty' = difficulty
    /\ game_state' = "playing"
    /\ puzzle_count' = 0
    /\ NewTracker
    /\ NewEngine
    /\ generate_new_puzzle(difficulty)
    /\ UNCHANGED max_puzzles

\* the feedback dict of submit_answer
Feedback(is_correct, time_taken, correct_answer, answer, old, new) ==
    [is_correct |-> is_correct, time |-> time_taken,
     correct_answer |-> correct_answer, user_answer |-> answer,
     difficulty_changed |-> old # new,
     old_difficulty |-> IF old # new THEN old ELSE None,
     new_difficulty |-> IF old # new THEN new ELSE None,
     change_reason |-> IF new > old THEN "Level UP"
                       ELSE IF new < old THEN "practice" ELSE ""]

submit_answer(answer, time_taken) ==
    IF current_puzzle = <<>>
    THEN UNCHANGED <<trackerVars, engineVars, sessionVars, call>>
    ELSE LET correct_answer == current_puzzle[1].answer
             is_correct     == IsCorrect(answer, correct_answer)
         IN  /\ record_performance(is_correct, time_taken, current_difficulty)
             /\ puzzle_count' = puzzle_count + 1
             /\ show_next_button' = TRUE
             /\ UNCHANGED <<user_name, max_puzzles, current_puzzle>>
             /\ IF puzzle_count' >= max_puzzles
                THEN /\ game_state' = "summary"
                     /\ feedback' = <<Feedback(is_correct, time_taken,
                                        correct_answer, answer,
                                        current_difficulty, current_difficulty)>>
                     /\ call' = Returned("record_performance",
                                    <<is_correct, time_taken, current_difficulty>>,
                                    None)
                     /\ UNCHANGED <<current_difficulty, engineVars>>
                ELSE \E prediction \in Classes, confidence \in Confidences :
                       LET recent_perf == get_recent_performance(history', 3)
                           out == predict_next_difficulty(recent_perf,
                                      current_difficulty, prediction_count,
                                      last_confidence, prediction, confidence)
                       IN  /\ current_difficulty' = out.next_difficulty
                           /\ prediction_count' = out.prediction_count
                           /\ last_confidence' = out.last_confidence
                           /\ UNCHANGED pretrain_model_runs
                           /\ feedback' = <<Feedback(is_correct, time_taken,
                                              correct_answer, answer,
                                              current_difficulty,
                                              out.next_difficulty)>>
                           /\ call' = Returned("predict_next_difficulty",
                                          [performance_metrics |-> recent_perf,
                                           current_difficulty |-> current_difficulty],
                                          out.next_difficulty)
                           /\ UNCHANGED game_state

\* (mutant) next_puzzle posing the next puzzle at the level of the one just
\* answered, not at the level the adaptation decided
next_puzzle_at_answered_level ==
    /\ generate_new_puzzle(current_puzzle[1].difficulty)
    /\ UNCHANGED <<trackerVars, engineVars, game_state, user_name,
                   current_difficulty, puzzle_count, max_puzzles>>

\* next_puzzle
next_puzzle ==
    /\ generate_new_puzzle(current_difficulty)
    /\ UNCHANGED <<trackerVars, engineVars, game_state, user_name,
                   current_difficulty, puzzle_count, max_puzzles>>

reset_game ==
    /\ game_state' = "welcome"
    /\ puzzle_count' = 0
    /\ current_puzzle' = <<>>
    /\ feedback' = <<>>
    /\ show_next_button' = FALSE
    /\ UNCHANGED <<trackerVars, engineVars, user_name, current_difficulty,
                   max_puzzles, call>>

\* welcome screen, "Start Adventure!": a blank name is refused
ClickStartAdventure ==
    /\ driver = "streamlit"
    /\ game_state = "welcome"
    /\ pretrain_model_runs < MaxEngines
    /\ \E name \in Names, difficulty \in Difficulties :
          IF Strip(name) # <<>>
          THEN start_game(name, difficulty) /\ UNCHANGED <<driver, cli>>
          ELSE UNCHANGED vars

\* (mutant) a "Submit Answer" button that stays on the screen with the
\* feedback
ClickSubmitAnswerBesideFeedback ==
    /\ driver = "streamlit"
    /\ game_state = "playing"
    /\ current_puzzle # <<>>
    /\ \E answer \in AnswersTo(current_puzzle[1]), time_taken \in Times :
          submit_answer(answer, time_taken)
    /\ UNCHANGED <<driver, cli>>

\* playing screen, "Submit Answer": shown while show_next_button is False
ClickSubmitAnswer ==
    /\ driver = "streamlit"
    /\ game_state = "playing"
    /\ ~show_next_button
    /\ current_puzzle # <<>>
    /\ \E answer \in AnswersTo(current_puzzle[1]), time_taken \in Times :
          submit_answer(answer, time_taken)
    /\ UNCHANGED <<driver, cli>>

\* playing screen, "Next Problem": shown with the feedback
ClickNextProblem ==
    /\ driver = "streamlit"
    /\ game_state = "playing"
    /\ feedback # <<>>
    /\ show_next_button
    /\ IF puzzle_count >= max_puzzles
       THEN /\ game_state' = "summary"
            /\ UNCHANGED <<trackerVars, engineVars, user_name,
                           current_difficulty, puzzle_count, max_puzzles,
                           current_puzzle, feedback, show_next_button, call>>
       ELSE next_puzzle
    /\ UNCHANGED <<driver, cli>>

\* summary screen: rendered from tracker.get_summary()
RenderSummary ==
    /\ driver = "streamlit"
    /\ game_state = "summary"
    /\ call' = Returned("get_summary", None,
                        get_summary(history, difficulty_changes))
    /\ UNCHANGED <<driver, trackerVars, engineVars, sessionVars, cli>>

\* summary screen, "Play Again"
ClickPlayAgain ==
    /\ driver = "streamlit"
    /\ game_state = "summary"
    /\ reset_game
    /\ UNCHANGED <<driver, cli>>

----------------------------------------------------------------------------
(* Specifications *)

TrackerNext ==
    \/ CallRecordPerformance
    \/ CallRecordAttempt
    \/ CallGetRecentPerformance
    \/ CallGetSummary
    \/ CallerContinues

EngineNext ==
    \/ CallPredictNextDifficulty
    \/ CallUpdateDifficulty
    \/ CallGetModelInfo
    \/ CallerContinues

GeneratorNext ==
    \/ CallGeneratePuzzle
    \/ CallerContinues
    \/ MainChoose
    \/ MainGenerate
    \/ MainRecord

Next ==
    \/ ClickStartAdventure
    \/ ClickSubmitAnswer
    \/ ClickNextProblem
    \/ RenderSummary
    \/ ClickPlayAgain

\* the Streamlit session
Spec == Start("streamlit") /\ [][Next]_vars

\* the Streamlit session of a learner who keeps answering and pressing
\* "Next Problem"
SpecSession ==
    /\ Spec
    /\ WF_vars(ClickSubmitAnswer)
    /\ WF_vars(ClickNextProblem)

\* a direct caller of the tracker
SpecTracker == Start("tracker") /\ [][TrackerNext]_vars

\* a direct caller of the tracker that also hands its statistics to the engine
SpecQueries ==
    Start("tracker") /\ [][TrackerNext \/ CallPredictNextDifficulty]_vars

\* a direct caller of the tracker and the engine, or the Streamlit session
SpecColdStart ==
    (Start("tracker") \/ Start("streamlit"))
        /\ [][TrackerNext \/ CallPredictNextDifficulty \/ Next]_vars

\* a direct caller of the tracker that asks for the statistics of a long log
SpecTrend ==
    StartRecorded /\ [][CallGetRecentPerformance \/ CallerContinues]_vars

\* a direct caller of the engine
SpecEngine == Start("engine") /\ [][EngineNext]_vars

\* a direct caller of the rule-based policy
SpecRuleBased ==
    Start("engine") /\ [][CallAdaptDifficulty \/ CallerContinues]_vars

\* a direct caller of the generator, or the CLI driver
SpecGenerator ==
    (Start("generator") \/ Start("cli")) /\ [][GeneratorNext]_vars

\* a direct caller of the engine, or the Streamlit session
SpecAdaptation ==
    (Start("engine") \/ Start("streamlit")) /\ [][EngineNext \/ Next]_vars

----------------------------------------------------------------------------
(* Claims *)

Abs(x) == IF x < 0 THEN 0 - x ELSE x

PolicyOps == {"predict_next_difficulty", "update_difficulty"}
RecordOps == {"record_performance", "record_attempt"}
QueryOps  == {"get_recent_performance", "get_summary",
              "predict_next_difficulty"}

\* the last k records of the log, by position
LastRecords(h, k) == [i \in 1 .. k |-> h[Len(h) - k + i]]

\* C1: predict_next_difficulty returns a level r in 1..3 at most one step
\* from the current level, for every current level, every statistics and
\* either decision path; so the session's current_difficulty stays in 1..3.
C1_NextDifficultyClamped ==
    /\ call.op \in PolicyOps =>
          /\ call.result \in {1, 2, 3}
          /\ Abs(call.result - call.arg.current_difficulty) <= 1
    /\ driver = "streamlit" => current_difficulty \in {1, 2, 3}

\* a session that started on level 1 and was raised to level 3
C1_Witness ==
    /\ driver = "streamlit"
    /\ Len(history) >= 2
    /\ history[1].difficulty = 1
    /\ current_difficulty = 3
    /\ call.op = "predict_next_difficulty"
    /\ call.arg.performance_metrics.recent_problems >= 2

\* C2: difficulty_changes is the number of adjacent pairs of records whose
\* difficulty differs; the first record is no change, so the counter is at
\* most len(history) - 1 on a non-empty log.
C2_DifficultyChangesCountsAdjacentDifferences ==
    /\ difficulty_changes =
          Cardinality({i \in 1 .. (Len(history) - 1) :
                          history[i].difficulty # history[i + 1].difficulty})
    /\ history # <<>> => difficulty_changes <= Len(history) - 1

C2_Witness ==
    /\ driver = "tracker"
    /\ Len(history) = 4
    /\ difficulty_changes = 2
    /\ history[1].difficulty = history[2].difficulty

\* C3: on a non-empty log and for every window size n >= 1,
\* get_recent_performance(n) returns streak counters of which exactly one
\* is non-zero.
C3_ExactlyOneStreakNonZero ==
    (call.op = "get_recent_performance" /\ call.arg >= 1 /\ history # <<>>) =>
        (call.result.correct_streak > 0) # (call.result.incorrect_streak > 0)

\* C4: for n >= 1, get_recent_performance(n) reports the last
\* min(n, len(history)) records and nothing older: their number, 100 times
\* their share of correct records, and the mean of their times.
C4_WindowIsLastMinRecords ==
    (call.op = "get_recent_performance" /\ call.arg >= 1) =>
        LET w      == Min(call.arg, Len(history))
            window == LastRecords(history, w)
        IN  /\ call.result.recent_problems = w
            /\ w > 0 =>
                  /\ call.result.accuracy.num * w =
                         100 * CorrectCount(window) * call.result.accuracy.den
                  /\ call.result.avg_time.num * w =
                         TimeSum(window) * call.result.avg_time.den

\* a window of 2 on a log of 4 whose older records are correct and fast and
\* whose last two are wrong and slow
C4_Witness ==
    /\ call.op = "get_recent_performance"
    /\ call.arg = 2
    /\ Len(history) = 4
    /\ history[1].correct /\ history[2].correct
    /\ call.result.accuracy = Zero
    /\ call.result.avg_time = [num |-> 20, den |-> 1]

\* C5: get_recent_performance(n) returns trend in {-1, 0, 1}; trend is 0
\* when the window holds fewer than 4 records; a window of w >= 4 records
\* is split at floor(w / 2), and trend is +1 iff the second half's accuracy
\* exceeds the first half's by strictly more than 0.2, -1 iff it is lower by
\* strictly more than 0.2, else 0.  With a of mid correct in the first half
\* and b of k in the second, b/k - a/mid > 1/5 is 5 * (b*mid - a*k) > mid*k.
C5_TrendThresholds ==
    (call.op = "get_recent_performance" /\ call.arg >= 1) =>
        LET w      == Min(call.arg, Len(history))
            window == LastRecords(history, w)
            mid    == w \div 2
            k      == w - mid
            a      == CorrectCount(SliceTo(window, mid))
            b      == CorrectCount(SliceFrom(window, mid))
            trend  == call.result.trend
        IN  /\ trend \in {-1, 0, 1}
            /\ w < 4 => trend = 0
            /\ w >= 4 =>
                  /\ trend = 1  <=> 5 * (b * mid - a * k) > mid * k
                  /\ trend = -1 <=> 5 * (a * k - b * mid) > mid * k

\* C6: with recent_problems < 2, predict_next_difficulty returns the
\* fallback rule's level: with score = accuracy * 0.7 + max(0, 30 -
\* avg_time) * 0.3, current + 1 if score > 75 and current < 3, else
\* current - 1 if score < 40 and current > 1, else current.  Nothing but
\* accuracy, avg_time and current enters it.
C6_ColdStartIsFallbackRule ==
    (call.op \in PolicyOps /\ call.arg.performance_metrics.recent_problems < 2)
    =>  LET acc     == call.arg.performance_metrics.accuracy
            avg     == call.arg.performance_metrics.avg_time
            current == call.arg.current_difficulty
            \* ten times the score, times both denominators
            score   == 7 * acc.num * avg.den
                       + 3 * Max(0, 30 * avg.den - avg.num) * acc.den
            unit    == acc.den * avg.den
        IN  call.result =
                IF score > 750 * unit /\ current < 3 THEN current + 1
                ELSE IF score < 400 * unit /\ current > 1 THEN current - 1
                ELSE current

\* a cold start on a fast correct answer with a long streak reported and a
\* falling trend: promoted all the same
C6_Witness ==
    /\ call.op = "predict_next_difficulty"
    /\ call.arg.performance_metrics.recent_problems = 1
    /\ call.arg.performance_metrics.accuracy = [num |-> 100, den |-> 1]
    /\ call.arg.performance_metrics.avg_time = [num |-> 3, den |-> 1]
    /\ call.arg.performance_metrics.trend = -1
    /\ call.arg.performance_metrics.incorrect_streak = 1
    /\ call.arg.current_difficulty = 2
    /\ call.result = 3

\* C7: on a non-empty log get_summary reports the last record's difficulty
\* as final_difficulty, and recommends final + 1 if the accuracy of the last
\* 3 records (all, if fewer) is >= 80 and final < 3, final - 1 if it is < 50
\* and final > 1, and final otherwise: a level in 1..3 within one step.
C7_SummaryRecommendation ==
    (call.op = "get_summary" /\ history # <<>>) =>
        LET w       == Min(3, Len(history))
            correct == CorrectCount(LastRecords(history, w))
            final   == history[Len(history)].difficulty
            rec     == call.result.recommended_difficulty
        IN  /\ call.result.final_difficulty = final
            /\ rec = IF 100 * correct >= 80 * w /\ final < 3 THEN final + 1
                     ELSE IF 100 * correct < 50 * w /\ final > 1 THEN final - 1
                     ELSE final
            /\ rec \in {1, 2, 3}
            /\ Abs(rec - final) <= 1

\* a log of 4 whose first record is wrong and whose last three are correct,
\* ending on level 1: 75% over all, 100% over the last three, level 2
\* recommended
C7_Witness ==
    /\ call.op = "get_summary"
    /\ Len(history) = 4
    /\ ~history[1].correct
    /\ history[4].difficulty = 1
    /\ call.result.recommended_difficulty = 2

\* C8: get_recent_performance, get_summary and predict_next_difficulty leave
\* history, difficulty_changes and last_difficulty as they were; so
\* get_recent_performance(n) asked again right after returns the same.
C8_QueriesLeaveTrackerUnchanged ==
    [][(call'.op \in QueryOps /\ call' # call) =>
          /\ history' = history
          /\ difficulty_changes' = difficulty_changes
          /\ last_difficulty' = last_difficulty
          /\ call'.op = "get_recent_performance" =>
                 get_recent_performance(history', call'.arg) = call'.result
      ]_vars

\* the engine consulted, through its classifier, on a log of 3 records
C8_Witness ==
    /\ driver = "tracker"
    /\ call.op = "predict_next_difficulty"
    /\ prediction_count = 1
    /\ Len(history) = 3
    /\ difficulty_changes = 2

\* C9: the log is append-only: a record call adds exactly the new record at
\* the end, and every step keeps the log it found as a prefix.
C9_HistoryAppendOnly ==
    [][/\ Len(history') >= Len(history)
       /\ SubSeq(history', 1, Len(history)) = history
       /\ (call'.op \in RecordOps /\ call' # call) =>
              history' = Append(history,
                            Record(call'.arg[1], call'.arg[2], call'.arg[3]))
      ]_vars

C9_Witness ==
    /\ driver = "tracker"
    /\ call.op = "record_attempt"
    /\ Len(history) = 4
    /\ history[1] # history[4]

\* C10: generate_puzzle with an argument outside {1, 2, 3}, the CLI's tags
\* 'easy', 'medium', 'hard' among them, is rejected with an error.
C10_InvalidDifficultyRejected ==
    (call.op = "generate_puzzle"
     /\ ~(call.arg.type = "int" /\ call.arg.value \in {1, 2, 3}))
    => call.raised = "InvalidDifficulty"

\* C11: prediction_count starts at 0; a predict_next_difficulty or
\* update_difficulty call with recent_problems >= 2 adds exactly 1 to it; a
\* call on the fallback path leaves it and last_confidence as they were, and
\* so does get_model_info, which reports it; the level returned is the
\* fallback's or the mapped class, whatever the counter holds.
C11_PredictionCountCountsClassifierDecisions ==
    /\ prediction_count = 0
    /\ [][/\ (call'.op \in PolicyOps /\ call' # call) =>
              LET pm      == call'.arg.performance_metrics
                  current == call'.arg.current_difficulty
              IN  IF pm.recent_problems >= 2
                  THEN /\ prediction_count' = prediction_count + 1
                       /\ call'.result \in
                              {MapPrediction(p, current) : p \in Classes}
                  ELSE /\ prediction_count' = prediction_count
                       /\ last_confidence' = last_confidence
                       /\ call'.result = rule_based_fallback(pm, current)
          /\ (call'.op = "get_model_info" /\ call' # call) =>
              /\ prediction_count' = prediction_count
              /\ last_confidence' = last_confidence
              /\ call'.result.predictions_made = prediction_count
         ]_vars

\* a fallback decision on an engine that has made a classifier decision
C11_Witness ==
    /\ driver = "engine"
    /\ call.op \in PolicyOps
    /\ call.arg.performance_metrics.recent_problems < 2
    /\ prediction_count = 1
    /\ last_confidence = 90

\* every whole accuracy from 0 to 100 percent
Percentages == {[num |-> a, den |-> 1] : a \in 0 .. 100}

FracLess(x, y) == x.num * y.den < y.num * x.den

\* C12: the fallback rule is monotone in accuracy: with avg_time and the
\* current level fixed, a higher accuracy never gives a lower level, and a
\* lower accuracy never a higher one.
C12_FallbackMonotoneInAccuracy ==
    (call.op \in PolicyOps
     /\ call.arg.performance_metrics.recent_problems < 2) =>
        LET pm      == call.arg.performance_metrics
            current == call.arg.current_difficulty
        IN  \A accuracy \in Percentages :
              LET other == rule_based_fallback(
                               [pm EXCEPT !.accuracy = accuracy], current)
              IN  /\ FracLess(pm.accuracy, accuracy) => other >= call.result
                  /\ FracLess(accuracy, pm.accuracy) => other <= call.result

\* a fast learner at level 2 with accuracy 50 stays; a lower accuracy
\* demotes and a higher one promotes
C12_Witness ==
    /\ call.op = "predict_next_difficulty"
    /\ call.arg.performance_metrics.recent_problems < 2
    /\ call.arg.performance_metrics.accuracy = [num |-> 50, den |-> 1]
    /\ call.arg.performance_metrics.avg_time = [num |-> 3, den |-> 1]
    /\ call.arg.current_difficulty = 2
    /\ call.result = 2
    /\ rule_based_fallback([call.arg.performance_metrics EXCEPT
                               !.accuracy = [num |-> 100, den |-> 1]], 2) = 3
    /\ rule_based_fallback([call.arg.performance_metrics EXCEPT
                               !.accuracy = [num |-> 0, den |-> 1]], 2) = 1

\* C13: on an empty history get_recent_performance(n) raises nothing and
\* returns, for every n, accuracy 0, avg_time 0, correct_streak 0,
\* incorrect_streak 0, recent_problems 0 and trend 0.
C13_EmptyHistoryNeutralDefaults ==
    (call.op = "get_recent_performance" /\ history = <<>>) =>
        /\ call.raised = "none"
        /\ call.result =
               [accuracy |-> [num |-> 0, den |-> 1],
                avg_time |-> [num |-> 0, den |-> 1],
                correct_streak |-> 0, incorrect_streak |-> 0,
                recent_problems |-> 0, trend |-> 0]

\* the default window asked of a tracker that has recorded nothing
C13_Witness ==
    /\ call.op = "get_recent_performance"
    /\ call.arg = 3
    /\ history = <<>>
    /\ last_difficulty = None

\* C14: in a Streamlit session begun by start_game, puzzle_count is the
\* number of records of the tracker and never exceeds max_puzzles; an answer
\* is recorded only for a puzzle that has no answer yet, and the next answer
\* needs a newly generated puzzle; game_state becomes "summary" exactly on
\* the step that records the max_puzzles-th answer; and a learner who keeps
\* answering and pressing "Next Problem" reaches the summary.
C14_FixedLengthSession ==
    /\ [](game_state # "welcome" =>
            /\ puzzle_count = Len(history)
            /\ Len(history) <= max_puzzles)
    /\ [][/\ (history' # history /\ game_state = "playing") =>
              (/\ ~show_next_button
               /\ show_next_button'
               /\ Len(history') = Len(history) + 1)
          /\ (show_next_button /\ ~show_next_button') =>
              \/ call'.op = "generate_puzzle" /\ game_state' = "playing"
              \/ game_state' = "welcome"
          /\ (game_state # "summary" /\ game_state' = "summary") <=>
              (Len(history') = Len(history) + 1 /\ Len(history') = max_puzzles)
         ]_vars
    /\ (game_state = "playing" ~> game_state = "summary")

\* the last answer of a session has just been submitted
C14_Witness ==
    /\ driver = "streamlit"
    /\ game_state = "summary"
    /\ call.op = "record_performance"
    /\ puzzle_count = max_puzzles
    /\ Len(history) = max_puzzles
    /\ show_next_button

\* C15: in the Streamlit session the difficulty submit_answer records is the
\* 'difficulty' field of the puzzle being answered; the puzzle on the screen
\* is not replaced by the step that records its answer.
C15_RecordedDifficultyIsPosedDifficulty ==
    [][(driver = "streamlit" /\ Len(history') = Len(history) + 1) =>
          /\ current_puzzle # <<>>
          /\ current_puzzle' = current_puzzle
          /\ history'[Len(history')].difficulty = current_puzzle[1].difficulty
      ]_vars

\* the second answer of a session whose first answer raised the level
C15_Witness ==
    /\ driver = "streamlit"
    /\ Len(history) = 2
    /\ history[1].difficulty = 1
    /\ history[2].difficulty = 2
    /\ current_puzzle # <<>>
    /\ current_puzzle[1].difficulty = 2
    /\ show_next_button

\* C16: the classifier is fitted once, when the process constructs its
\* engine: no step of the Streamlit session (start_game, also after "Play
\* Again", and every predict_next_difficulty call) runs _pretrain_model again.
C16_PretrainedOncePerProcess ==
    [][pretrain_model_runs' = pretrain_model_runs]_vars

\* C17: a generated subtraction has num1 >= num2 and an answer that is not
\* negative, whatever tier generate_puzzle took and whatever was drawn.
C17_SubtractionNeverNegative ==
    (/\ call.op = "generate_puzzle"
     /\ call.raised = "none"
     /\ call.result.operation = "-") =>
        /\ call.result.num1 >= call.result.num2
        /\ call.result.answer.num >= 0
        /\ call.result.answer.den = 1

\* an Easy subtraction over the two ends of the operand range
C17_Witness ==
    /\ call.op = "generate_puzzle"
    /\ call.raised = "none"
    /\ call.result.operation = "-"
    /\ call.result.difficulty = 1
    /\ call.result.num1 = 10
    /\ call.result.num2 = 1
    /\ call.result.answer = [num |-> 9, den |-> 1]

\* C18: a Hard division has its divisor num2 in 2..12, num1 a multiple of
\* num2, and as answer the whole quotient num1 / num2, in 5..15; and the
\* answer of every generated puzzle is its operator evaluated on its
\* (num1, num2).
C18_AnswerIsOperatorOnOperands ==
    (call.op = "generate_puzzle" /\ call.raised = "none") =>
        LET p == call.result
        IN  /\ (p.operation = "/" /\ p.difficulty = 3) =>
                  /\ p.num2 \in 2 .. 12
                  /\ p.num1 % p.num2 = 0
                  /\ p.answer.den = 1
                  /\ p.answer.num \in 5 .. 15
                  /\ p.num1 = p.num2 * p.answer.num
            /\ p.operation \in {"+", "-", "*", "/"}
            /\ p.operation = "+" => p.answer.den = 1 /\ p.answer.num = p.num1 + p.num2
            /\ p.operation = "-" => p.answer.den = 1 /\ p.answer.num = p.num1 - p.num2
            /\ p.operation = "*" => p.answer.den = 1 /\ p.answer.num = p.num1 * p.num2
            /\ p.operation = "/" => p.answer.num * p.num2 = p.num1 * p.answer.den

\* the largest Hard division: 180 / 12 = 15
C18_Witness ==
    /\ call.op = "generate_puzzle"
    /\ call.raised = "none"
    /\ call.result = [num1 |-> 180, num2 |-> 12, operation |-> "/",
                      answer |-> [num |-> 15, den |-> 1], difficulty |-> 3]

\* perf of the statistics of an adapt_difficulty call, in thousandths: the
\* times a caller passes are multiples of 50 ms
PerfThousandths(stats) ==
    LET slack == 15000 - stats.avg_time_ms
        speed == IF slack < 0 THEN 0 ELSE IF slack > 15000 THEN 15000 ELSE slack
    IN  7 * stats.accuracy + (speed \div 50)

\* C19: the rule-based policy.  With fewer than 2 records in the window the
\* difficulty is unchanged.  With 2 or more: Easy goes to Medium iff
\* perf > 0.75 and accuracy >= 0.67; Medium goes to Hard iff perf > 0.80 and
\* accuracy >= 0.67, and to Easy iff perf < 0.40 or accuracy < 0.34; Hard
\* goes to Medium iff perf < 0.5 or accuracy < 0.34; nothing else changes
\* the level, and no statistics both promote and demote.  Easy at 90% and
\* 3000 ms gives Medium; Hard at 20% and 12000 ms gives Medium.
C19_RuleBasedTransitions ==
    call.op = "adapt_difficulty" =>
        LET stats    == call.arg.stats
            current  == call.arg.current_difficulty
            next     == call.result
            perf     == PerfThousandths(stats)
            advance  == stats.accuracy >= 67
            struggle == stats.accuracy < 34
        IN  /\ stats.recent_problems < 2 => next = current
            /\ (stats.recent_problems >= 2 /\ current = 1) =>
                  /\ next = 2 <=> (perf > 750 /\ advance)
                  /\ next \in {1, 2}
            /\ (stats.recent_problems >= 2 /\ current = 2) =>
                  /\ next = 3 <=> (perf > 800 /\ advance)
                  /\ next = 1 <=> (perf < 400 \/ struggle)
                  /\ ~((perf > 800 /\ advance) /\ (perf < 400 \/ struggle))
                  /\ next \in {1, 2, 3}
            /\ (stats.recent_problems >= 2 /\ current = 3) =>
                  /\ next = 2 <=> (perf < 500 \/ struggle)
                  /\ next \in {2, 3}
            /\ (/\ stats.recent_problems >= 2 /\ current = 1
                /\ stats.accuracy = 90 /\ stats.avg_time_ms = 3000) => next = 2
            /\ (/\ stats.recent_problems >= 2 /\ current = 3
                /\ stats.accuracy = 20 /\ stats.avg_time_ms = 12000) => next = 2

\* the second example: Hard at 20% and 12000 ms, on a window of 3
C19_Witness ==
    /\ call.op = "adapt_difficulty"
    /\ call.arg.current_difficulty = 3
    /\ call.arg.stats =
          [accuracy |-> 20, avg_time_ms |-> 12000, recent_problems |-> 3]
    /\ call.result = 2

\* C20: the predictions_made that the summary screen of the Streamlit
\* session shows is the engine's prediction_count, the number of classifier
\* decisions predict_next_difficulty made in the session.
C20_SummaryCountsClassifierDecisions ==
    (driver = "streamlit" /\ call.op = "get_summary") =>
        call.result.model_info.predictions_made = prediction_count

\* length of the longest run of the last record's outcome at the end of w
RunAtEnd(w) ==
    LET same(k) == \A i \in (Len(w) - k + 1) .. Len(w) :
                      w[i].correct = w[Len(w)].correct
        runs    == {k \in 1 .. Len(w) : same(k)}
    IN  CHOOSE k \in runs : \A j \in runs : j <= k

\* C21: get_recent_performance(n), n >= 1, on a log that is not empty: the
\* streak counter of the last record's outcome is the length of the run of
\* that outcome at the end of the window; the other counter is 1 when the
\* run is shorter than the window and 0 when it covers the window; neither
\* counter exceeds the window size.
C21_StreaksAreRunAtEndOfWindow ==
    (/\ call.op = "get_recent_performance"
     /\ call.arg >= 1
     /\ history # <<>>) =>
        LET w     == LastRecords(history, Min(call.arg, Len(history)))
            run   == RunAtEnd(w)
            other == IF run < Len(w) THEN 1 ELSE 0
            r     == call.result
        IN  /\ w[Len(w)].correct =>
                  r.correct_streak = run /\ r.incorrect_streak = other
            /\ ~w[Len(w)].correct =>
                  r.incorrect_streak = run /\ r.correct_streak = other
            /\ r.correct_streak <= Len(w)
            /\ r.incorrect_streak <= Len(w)

\* a window of 3 out of 4 records, ending in two correct answers after a
\* wrong one
C21_Witness ==
    /\ call.op = "get_recent_performance"
    /\ call.arg = 3
    /\ Len(history) = 4
    /\ history[1].correct
    /\ ~history[2].correct
    /\ history[3].correct
    /\ history[4].correct
    /\ call.result.correct_streak = 2
    /\ call.result.incorrect_streak = 1

\* average times of 0 to 60 seconds, whole
ColdStartTimes == {[num |-> t, den |-> 1] : t \in 0 .. 60}

\* C22: a predict_next_difficulty call on statistics of fewer than 2
\* problems and accuracy 0 (the defaults of an empty history, or one wrong
\* attempt) returns max(current - 1, 1); the fallback gives that level for
\* every average time, its score being at most 9.
C22_ColdStartWrongAnswerDemotes ==
    (/\ call.op = "predict_next_difficulty"
     /\ call.arg.performance_metrics.recent_problems < 2
     /\ call.arg.performance_metrics.accuracy.num = 0) =>
        LET pm      == call.arg.performance_metrics
            current == call.arg.current_difficulty
        IN  /\ call.result = Max(current - 1, 1)
            /\ 10 * ScoreNum(pm) <= 90 * ScoreDen(pm)
            /\ \A avg_time \in ColdStartTimes :
                  rule_based_fallback([pm EXCEPT !.avg_time = avg_time], current)
                      = Max(current - 1, 1)

\* a Streamlit session begun at Medium whose first answer, a fast one, was
\* wrong: the learner is at Easy
C22_Witness ==
    /\ driver = "streamlit"
    /\ call.op = "predict_next_difficulty"
    /\ Len(history) = 1
    /\ ~history[1].correct
    /\ history[1].time = 3
    /\ history[1].difficulty = 2
    /\ call.arg.current_difficulty = 2
    /\ call.result = 1
    /\ current_difficulty = 1

\* C23: with the window size 3 that the callers in the source use,
\* get_recent_performance returns trend 0 on every log, and the statistics
\* handed to predict_next_difficulty, by the Streamlit session or by a
\* caller holding a tracker, have trend 0.
C23_TrendZeroOnWindowOfThree ==
    /\ (call.op = "get_recent_performance" /\ call.arg = 3) =>
          /\ call.result.trend = 0
          /\ call.result.recent_problems <= 3
    /\ (call.op = "predict_next_difficulty"
            /\ driver \in {"tracker", "streamlit"}) =>
          /\ call.arg.performance_metrics.trend = 0
          /\ call.arg.performance_metrics.recent_problems <= 3

\* two wrong answers and then two correct ones: the window of 4 is
\* improving, the window of 3 has no trend
C23_Witness ==
    /\ call.op = "get_recent_performance"
    /\ call.arg = 3
    /\ Len(history) = 4
    /\ ~history[1].correct
    /\ ~history[2].correct
    /\ history[3].correct
    /\ history[4].correct
    /\ get_recent_performance(history, 4).trend = 1
    /\ call.result.recent_problems = 3
    /\ call.result.trend = 0

\* a decision that moved the session's level and is not yet in the log: 1
\* when current_difficulty differs from the last recorded difficulty
PendingChange(h, current) ==
    IF h # <<>> /\ h[Len(h)].difficulty # current THEN 1 ELSE 0

\* C24: in a Streamlit session difficulty_changes counts the adaptation
\* decisions that moved the level.  A session starts with no change counted;
\* every answer followed by a decision adds 1 to the changes counted or
\* pending exactly when the decision's result differs from the level it was
\* asked for; the last answer is followed by no decision and leaves nothing
\* pending.  So in the summary state difficulty_changes is the number of
\* decisions that moved the level, and the summary's final_difficulty is the
\* session's current_difficulty.
C24_SummaryCountsLevelChanges ==
    /\ [][driver = "streamlit" =>
            /\ (game_state = "welcome" /\ game_state' = "playing") =>
                  difficulty_changes' = 0 /\ history' = <<>>
            /\ (game_state = "playing" /\ Len(history') = Len(history) + 1) =>
                  LET before == difficulty_changes
                                  + PendingChange(history, current_difficulty)
                      after  == difficulty_changes'
                                  + PendingChange(history', current_difficulty')
                  IN  IF game_state' = "summary"
                      THEN /\ after = before
                           /\ current_difficulty' = current_difficulty
                           /\ PendingChange(history', current_difficulty') = 0
                      ELSE /\ call'.op = "predict_next_difficulty"
                           /\ call'.arg.current_difficulty = current_difficulty
                           /\ call'.result = current_difficulty'
                           /\ after = before
                                + (IF call'.result # current_difficulty
                                   THEN 1 ELSE 0)
            /\ (game_state = "playing" /\ history' = history) =>
                  /\ difficulty_changes' = difficulty_changes
                  /\ current_difficulty' = current_difficulty
         ]_vars
    /\ [](game_state = "summary" =>
            /\ PendingChange(history, current_difficulty) = 0
            /\ call.op = "get_summary" =>
                  /\ call.result.difficulty_changes = difficulty_changes
                  /\ call.result.final_difficulty = current_difficulty)

\* the summary of a session whose two decisions both moved the level, up
\* and down again
C24_Witness ==
    /\ driver = "streamlit"
    /\ game_state = "summary"
    /\ call.op = "get_summary"
    /\ Len(history) = 3
    /\ history[1].difficulty = 1
    /\ history[2].difficulty = 2
    /\ history[3].difficulty = 1
    /\ difficulty_changes = 2
    /\ call.result.difficulty_changes = 2
    /\ call.result.final_difficulty = 1
    /\ current_difficulty = 1

====
